---- MODULE Spec2Model ----
(***************************************************************************)
(* Model of scripts/convert_gml_to_json.py: CityGML LinearRing parsing,    *)
(* fan triangulation, per-file extraction with fallback, origin            *)
(* computation, projection with bounding box, and the written JSON record. *)
(*                                                                         *)
(* Three specifications share the module:                                  *)
(*   SpecRing    parse_linear_ring followed by polygon_to_triangles        *)
(*   SpecExtract extract_triangles on one document                         *)
(*   Spec        main(): the whole run over a directory of files           *)
(***************************************************************************)
EXTENDS Integers, Sequences, FiniteSets

(***************************************************************************)
(* Bounds.                                                                 *)
(***************************************************************************)
\* SpecRing: a posList is up to MaxVerts vertices followed by up to
\* MaxTail extra tokens.
MaxVerts == 4
MaxTail == 2
\* SpecExtract: a document has up to MaxNodes top-level geometry nodes and a
\* lod1Solid holds up to MaxSolidRings LinearRings.
MaxNodes == 2
MaxSolidRings == 2
\* Spec: the source directory holds up to MaxFiles *.gml files.
MaxFiles == 2

(***************************************************************************)
(* Python floats.  A float is a record [n, d]: the exact rational n/d when *)
(* d > 0 (in lowest terms), +inf = 1/0, -inf = -1/0, NaN = 0/0.  Rounding  *)
(* is not modelled; NaN and the infinities behave as in IEEE 754.          *)
(***************************************************************************)
Abs(i) == IF i < 0 THEN -i ELSE i

Sign(i) == IF i > 0 THEN 1 ELSE IF i < 0 THEN -1 ELSE 0

RECURSIVE GCD(_, _)
GCD(a, b) == IF b = 0 THEN a ELSE GCD(b, a % b)

Norm(n, d) ==
    IF d = 0 THEN [n |-> Sign(n), d |-> 0]
    ELSE LET g == GCD(Abs(n), d) IN [n |-> n \div g, d |-> d \div g]

Num(i) == [n |-> i, d |-> 1]
NaN == [n |-> 0, d |-> 0]
PosInf == [n |-> 1, d |-> 0]
NegInf == [n |-> -1, d |-> 0]

IsNaN(a) == a.d = 0 /\ a.n = 0
IsInf(a) == a.d = 0 /\ a.n # 0

FNeg(a) == [n |-> -a.n, d |-> a.d]

FAdd(a, b) ==
    IF a.d = 0 /\ b.d = 0 THEN (IF a.n = b.n THEN a ELSE NaN)
    ELSE IF a.d = 0 THEN a
    ELSE IF b.d = 0 THEN b
    ELSE Norm(a.n * b.d + b.n * a.d, a.d * b.d)

FSub(a, b) == FAdd(a, FNeg(b))

FMul(a, b) == Norm(a.n * b.n, a.d * b.d)

\* a / k for an integer k > 0 (sum(xs) / len(xs)).
FDivInt(a, k) == Norm(a.n, a.d * k)

\* Python's a < b, a == b on floats: every comparison with NaN is false.
FLt(a, b) ==
    IF IsNaN(a) \/ IsNaN(b) THEN FALSE
    ELSE IF a.d = 0 /\ b.d = 0 THEN a.n < b.n
    ELSE a.n * b.d < b.n * a.d

FEq(a, b) == ~IsNaN(a) /\ ~IsNaN(b) /\ a = b

FLeq(a, b) == FLt(a, b) \/ FEq(a, b)

\* Builtin min(a, b) / max(a, b): the first argument is kept unless the
\* second compares strictly smaller / larger.
PyMin(a, b) == IF FLt(b, a) THEN b ELSE a

PyMax(a, b) == IF FLt(a, b) THEN b ELSE a

RECURSIVE FSum(_)
FSum(xs) == IF xs = <<>> THEN Num(0) ELSE FAdd(FSum(SubSeq(xs, 1, Len(xs) - 1)), xs[Len(xs)])

\* Tuple equality: same length and every pair of elements compares equal.
\* The elements of two chunks come from distinct float() calls, so the
\* identity shortcut of tuple comparison never applies between them.
TupleEq(s, t) == Len(s) = Len(t) /\ \A i \in 1..Len(s) : FEq(s[i], t[i])

(***************************************************************************)
(* Tokens of a posList text and float().                                   *)
(***************************************************************************)
T(i) == [k |-> "num", v |-> i]
TNaN == [k |-> "nan", v |-> 0]
TInf == [k |-> "inf", v |-> 0]
TBad == [k |-> "bad", v |-> 0]

\* float(v) raises ValueError exactly on a token that is no float literal;
\* "NaN" and "inf" are float literals.
FloatRaisesBroken(tok) == FALSE

FloatRaises(tok) == tok.k = "bad"

FloatOf(tok) ==
    IF tok.k = "num" THEN Num(tok.v)
    ELSE IF tok.k = "nan" THEN NaN
    ELSE IF tok.k = "inf" THEN PosInf
    ELSE Num(0)

Min2(a, b) == IF a < b THEN a ELSE b

chunked(seq, size) ==
    [j \in 1..((Len(seq) + size - 1) \div size) |->
        SubSeq(seq, (j - 1) * size + 1, Min2(j * size, Len(seq)))]

\* A LinearRing element: has_pos tells whether it has a gml:posList child,
\* text is the whitespace-split text of that child.
Ring(toks) == [has_pos |-> TRUE, text |-> toks]
NoPosList == [has_pos |-> FALSE, text |-> <<>>]

ClosePopTwice(coords) ==
    LET once == IF Len(coords) > 1 /\ TupleEq(coords[1], coords[Len(coords)])
                THEN SubSeq(coords, 1, Len(coords) - 1) ELSE coords
    IN IF Len(once) > 1 /\ TupleEq(once[1], once[Len(once)])
       THEN SubSeq(once, 1, Len(once) - 1) ELSE once

ClosePop(coords) ==
    IF Len(coords) > 1 /\ TupleEq(coords[1], coords[Len(coords)])
    THEN SubSeq(coords, 1, Len(coords) - 1)
    ELSE coords

\* Result [raised, coords]: raised is the ValueError of float().
parse_linear_ring(ring) ==
    IF ~ring.has_pos \/ ring.text = <<>>
    THEN [raised |-> FALSE, coords |-> <<>>]
    ELSE IF \E i \in 1..Len(ring.text) : FloatRaises(ring.text[i])
    THEN [raised |-> TRUE, coords |-> <<>>]
    ELSE LET raw_values == [i \in 1..Len(ring.text) |-> FloatOf(ring.text[i])]
         IN [raised |-> FALSE, coords |-> ClosePop(chunked(raw_values, 3))]

FanLoopNoAnchor(coords, i, triangles) ==
    [j \in 1..(Len(coords) - 2) |-> <<coords[j], coords[j + 1], coords[j + 2]>>]

RECURSIVE FanLoop(_, _, _)
FanLoop(coords, i, triangles) ==
    IF i > Len(coords) - 2 THEN triangles
    ELSE FanLoop(coords, i + 1, Append(triangles, <<coords[1], coords[i + 1], coords[i + 2]>>))

polygon_to_triangles(coords) ==
    IF Len(coords) < 3 THEN <<>> ELSE FanLoop(coords, 1, <<>>)

(***************************************************************************)
(* Documents.  A document is the sequence, in document order, of its       *)
(* geometry nodes: a bldg:lod1Solid with the LinearRings found inside it,  *)
(* or a LinearRing outside every lod1Solid.                                *)
(***************************************************************************)
Solid(rings) == [solid |-> TRUE, rings |-> rings]
Stray(ring) == [solid |-> FALSE, rings |-> <<ring>>]

RECURSIVE SolidRings(_)
SolidRings(doc) ==
    IF doc = <<>> THEN <<>>
    ELSE (IF Head(doc).solid THEN Head(doc).rings ELSE <<>>) \o SolidRings(Tail(doc))

RECURSIVE AllRings(_)
AllRings(doc) ==
    IF doc = <<>> THEN <<>> ELSE Head(doc).rings \o AllRings(Tail(doc))

\* for ring in rings: coords = parse_linear_ring(ring);
\*                    triangles.extend(polygon_to_triangles(coords))
RECURSIVE RingsLoop(_, _)
RingsLoop(rings, triangles) ==
    IF rings = <<>> THEN [raised |-> FALSE, triangles |-> triangles]
    ELSE LET parsed == parse_linear_ring(Head(rings))
         IN IF parsed.raised THEN [raised |-> TRUE, triangles |-> <<>>]
            ELSE RingsLoop(Tail(rings), triangles \o polygon_to_triangles(parsed.coords))

extract_triangles_no_fallback(doc) == RingsLoop(SolidRings(doc), <<>>)

extract_triangles(doc) ==
    LET first == RingsLoop(SolidRings(doc), <<>>)
    IN IF first.raised THEN first
       ELSE IF first.triangles = <<>> THEN RingsLoop(AllRings(doc), <<>>)
       ELSE first

(***************************************************************************)
(* Geodesy and projection.                                                 *)
(***************************************************************************)
\* Lines 65-67 tabulated: entry k + 1 is the pair of scales at k whole
\* degrees, rounded to whole metres.
ScaleTable ==
    << <<110574, 111319>>, <<110575, 111302>>, <<110576, 111252>>,
       <<110577, 111168>>, <<110580, 111050>>, <<110583, 110899>> >>

\* math.cos raises ValueError ("math domain error") on an infinity.
DegreesRaises(lat_deg) == IsInf(lat_deg)

degrees_to_meters_converter(lat_deg) ==
    IF IsNaN(lat_deg) \/ IsInf(lat_deg) THEN <<NaN, NaN>>
    ELSE LET whole == Abs(lat_deg.n) \div lat_deg.d
             row == ScaleTable[Min2(whole, Len(ScaleTable) - 1) + 1]
         IN <<Num(row[1]), Num(row[2])>>

ProjectX(lon, lon_ref, lon_scale) == FMul(FSub(lon, lon_ref), lon_scale)

ProjectZ(lat, lat_ref, lat_scale) == FMul(FNeg(FSub(lat, lat_ref)), lat_scale)

\* (x, y, z) of one geographic vertex (lat, lon, height); lines 84-86.
ProjectVertex(v, lat_ref, lon_ref, sc) ==
    <<ProjectX(v[2], lon_ref, sc[2]), v[3], ProjectZ(v[1], lat_ref, sc[1])>>

AccMinBroken(m, p) == [k \in 1..3 |-> PyMax(m[k], p[k])]

AccMin(m, p) == [k \in 1..3 |-> PyMin(m[k], p[k])]

AccMax(m, p) == [k \in 1..3 |-> PyMax(m[k], p[k])]

(***************************************************************************)
(* main(): accumulation over the files.                                    *)
(***************************************************************************)
RECURSIVE Flatten(_)
Flatten(seqs) == IF seqs = <<>> THEN <<>> ELSE Head(seqs) \o Flatten(Tail(seqs))

\* "for lat, lon, _ in tri" raises ValueError on a vertex that is no triple.
UnpackRaises(triangles) ==
    \E i \in 1..Len(triangles) : \E j \in 1..3 : Len(triangles[i][j]) # 3

SamplesAnchorOnly(triangles, k) == [i \in 1..Len(triangles) |-> triangles[i][1][k]]

\* The k-th component of every corner of every triangle, in loop order
\* (lines 121-124 with k = 1 for lats, k = 2 for lons).
Samples(triangles, k) == Flatten([i \in 1..Len(triangles) |-> [j \in 1..3 |-> triangles[i][j][k]]])

ExtendPrepend(acc, triangles) == triangles \o acc

Extend(acc, triangles) == acc \o triangles

Mean(xs) == FDivInt(FSum(xs), Len(xs))

ApplyLimit(files, lim) ==
    IF lim # 0 THEN SubSeq(files, 1, Min2(lim, Len(files))) ELSE files

EmptyInputNever(triangles) == FALSE

\* "if not all_triangles: raise SystemExit(...)"
EmptyInput(triangles) == triangles = <<>>

RECURSIVE ContributingNames(_)
ContributingNames(files) ==
    IF files = <<>> THEN <<>>
    ELSE (IF extract_triangles(Head(files).doc).triangles # <<>>
          THEN <<Head(files).name>> ELSE <<>>) \o ContributingNames(Tail(files))

SourceFilesKept(files) == ContributingNames(files)

\* [f.name for f in gml_files]
SourceFiles(files) == [i \in 1..Len(files) |-> files[i].name]

VARIABLES
    \* SpecRing
    r_ring, r_parsed, r_tris, r_pc,
    \* SpecExtract
    e_doc, e_result, e_pc,
    \* Spec: the directory and --limit, then main()'s locals
    dir_files, limit, gml_files, idx, all_triangles, lats, lons,
    lat0, lon0, scales, ti, vi, flat, converted, bmin, bmax,
    output, error, pc

ring_vars == <<r_ring, r_parsed, r_tris, r_pc>>
extract_vars == <<e_doc, e_result, e_pc>>
main_vars == <<dir_files, limit, gml_files, idx, all_triangles, lats, lons,
               lat0, lon0, scales, ti, vi, flat, converted, bmin, bmax,
               output, error, pc>>
vars == <<ring_vars, extract_vars, main_vars>>

SeqsUpTo(S, n) == UNION {[1..k -> S] : k \in 0..n}

NoResult == [raised |-> FALSE, coords |-> <<>>]
NoTriangles == [raised |-> FALSE, triangles |-> <<>>]

RingIdle ==
    /\ r_ring = NoPosList
    /\ r_parsed = NoResult
    /\ r_tris = <<>>
    /\ r_pc = "idle"

ExtractIdle ==
    /\ e_doc = <<>>
    /\ e_result = NoTriangles
    /\ e_pc = "idle"

MainIdle ==
    /\ dir_files = <<>>
    /\ limit = 0
    /\ gml_files = <<>>
    /\ idx = 1
    /\ all_triangles = <<>>
    /\ lats = <<>>
    /\ lons = <<>>
    /\ lat0 = NaN
    /\ lon0 = NaN
    /\ scales = <<NaN, NaN>>
    /\ ti = 1
    /\ vi = 1
    /\ flat = <<>>
    /\ converted = <<>>
    /\ bmin = <<PosInf, PosInf, PosInf>>
    /\ bmax = <<NegInf, NegInf, NegInf>>
    /\ output = <<>>
    /\ error = "none"

(***************************************************************************)
(* SpecRing: one LinearRing through parse_linear_ring and                  *)
(* polygon_to_triangles.                                                   *)
(***************************************************************************)
VA == <<T(0), T(0), T(0)>>
VB == <<T(0), T(1), T(1)>>
VC == <<TNaN, T(1), T(0)>>
RingVertexSet == {VA, VB, VC}
TailTokenSet == {T(1), TNaN, TBad}

RingInputs ==
    {NoPosList} \cup
    {Ring(Flatten(vs) \o tl) : vs \in SeqsUpTo(RingVertexSet, MaxVerts),
                               tl \in SeqsUpTo(TailTokenSet, MaxTail)}

InitRing ==
    /\ r_ring \in RingInputs
    /\ r_parsed = NoResult
    /\ r_tris = <<>>
    /\ r_pc = "parse"
    /\ ExtractIdle
    /\ MainIdle
    /\ pc = "idle"

ParseRing ==
    /\ r_pc = "parse"
    /\ r_parsed' = parse_linear_ring(r_ring)
    /\ r_pc' = IF r_parsed'.raised THEN "raised" ELSE "triangulate"
    /\ UNCHANGED <<r_ring, r_tris, extract_vars, main_vars>>

Triangulate ==
    /\ r_pc = "triangulate"
    /\ r_tris' = polygon_to_triangles(r_parsed.coords)
    /\ r_pc' = "done"
    /\ UNCHANGED <<r_ring, r_parsed, extract_vars, main_vars>>

NextRing == ParseRing \/ Triangulate

SpecRing == InitRing /\ [][NextRing]_vars

(***************************************************************************)
(* SpecExtract: extract_triangles on one document.                         *)
(***************************************************************************)
RingTri == Ring(Flatten(<<VA, VB, <<T(1), T(0), T(2)>> >>))
RingQuadClosed ==
    Ring(Flatten(<< <<T(0), T(0), T(0)>>, <<T(0), T(2), T(0)>>, <<T(2), T(2), T(1)>>,
                    <<T(1), T(0), T(1)>>, <<T(0), T(0), T(0)>> >>))
RingTwo == Ring(Flatten(<< <<T(1), T(1), T(0)>>, <<T(2), T(2), T(0)>> >>))

ExtractRingSet == {RingTri, RingQuadClosed, RingTwo}

NodeSet ==
    {Solid(rs) : rs \in SeqsUpTo(ExtractRingSet, MaxSolidRings)} \cup
    {Stray(r) : r \in ExtractRingSet}

InitExtract ==
    /\ e_doc \in SeqsUpTo(NodeSet, MaxNodes)
    /\ e_result = NoTriangles
    /\ e_pc = "extract"
    /\ RingIdle
    /\ MainIdle
    /\ pc = "idle"

ExtractDoc ==
    /\ e_pc = "extract"
    /\ e_result' = extract_triangles(e_doc)
    /\ e_pc' = "done"
    /\ UNCHANGED <<e_doc, ring_vars, main_vars>>

NextExtract == ExtractDoc

SpecExtract == InitExtract /\ [][NextExtract]_vars

(***************************************************************************)
(* Spec: main() over a directory.  dir_files is sorted(glob("*.gml")),     *)
(* each entry a file name with the document ET.parse reads from it.        *)
(***************************************************************************)
RingNaNHeight == Ring(Flatten(<< <<T(0), T(0), TNaN>>, <<T(0), T(1), T(1)>>, <<T(1), T(1), T(1)>> >>))
RingNaNLon == Ring(Flatten(<< <<T(0), TNaN, T(0)>>, <<T(0), T(1), T(1)>>, <<T(1), T(1), T(1)>> >>))
RingInfLat == Ring(Flatten(<< <<TInf, T(0), T(0)>>, <<T(0), T(1), T(0)>>, <<T(1), T(1), T(0)>> >>))
RingBad == Ring(Flatten(<< <<T(0), T(0), T(0)>>, <<T(0), TBad, T(0)>>, <<T(1), T(1), T(0)>> >>))
RingPartial == Ring(Flatten(<< <<T(0), T(0), T(0)>>, <<T(0), T(1), T(0)>>, <<T(1)>> >>))

DocSet ==
    { <<>>,
      <<Solid(<<RingTri>>)>>,
      <<Solid(<<RingQuadClosed>>)>>,
      <<Solid(<<>>), Stray(RingTri)>>,
      <<Solid(<<RingTwo>>)>>,
      <<Solid(<<RingTwo, RingTri>>), Stray(RingQuadClosed)>>,
      <<Solid(<<RingNaNHeight>>)>>,
      <<Solid(<<RingNaNLon>>)>>,
      <<Solid(<<RingInfLat>>)>>,
      <<Stray(RingBad)>>,
      <<Solid(<<RingTri>>), Stray(RingBad)>>,
      <<Solid(<<RingPartial>>)>> }

FileNames == <<"a.gml", "b.gml", "c.gml", "d.gml", "e.gml">>

Init ==
    /\ \E docs \in SeqsUpTo(DocSet, MaxFiles) :
         dir_files = [i \in 1..Len(docs) |-> [name |-> FileNames[i], doc |-> docs[i]]]
    /\ limit \in 0..MaxFiles
    /\ gml_files = <<>>
    /\ idx = 1
    /\ all_triangles = <<>>
    /\ lats = <<>>
    /\ lons = <<>>
    /\ lat0 = NaN
    /\ lon0 = NaN
    /\ scales = <<NaN, NaN>>
    /\ ti = 1
    /\ vi = 1
    /\ flat = <<>>
    /\ converted = <<>>
    /\ bmin = <<PosInf, PosInf, PosInf>>
    /\ bmax = <<NegInf, NegInf, NegInf>>
    /\ output = <<>>
    /\ error = "none"
    /\ pc = "enumerate"
    /\ RingIdle
    /\ ExtractIdle

\* Lines 110-116.
Enumerate ==
    /\ pc = "enumerate"
    /\ gml_files' = ApplyLimit(dir_files, limit)
    /\ pc' = "loop"
    /\ UNCHANGED <<dir_files, limit, idx, all_triangles, lats, lons, lat0, lon0,
                   scales, ti, vi, flat, converted, bmin, bmax, output, error,
                   ring_vars, extract_vars>>

\* One iteration of the loop of lines 117-125.  A ValueError (float() in
\* parse_linear_ring, or the unpacking of line 122) ends the run.
ExtractFile ==
    /\ pc = "loop"
    /\ idx <= Len(gml_files)
    /\ LET res == extract_triangles(gml_files[idx].doc)
           triangles == res.triangles
       IN IF res.raised \/ UnpackRaises(triangles)
          THEN /\ error' = "ValueError"
               /\ pc' = "done"
               /\ UNCHANGED <<idx, all_triangles, lats, lons>>
          ELSE IF triangles = <<>>
          THEN /\ idx' = idx + 1
               /\ UNCHANGED <<all_triangles, lats, lons, error, pc>>
          ELSE /\ lats' = lats \o Samples(triangles, 1)
               /\ lons' = lons \o Samples(triangles, 2)
               /\ all_triangles' = Extend(all_triangles, triangles)
               /\ idx' = idx + 1
               /\ UNCHANGED <<error, pc>>
    /\ UNCHANGED <<dir_files, limit, gml_files, lat0, lon0, scales, ti, vi, flat,
                   converted, bmin, bmax, output, ring_vars, extract_vars>>

\* Lines 127-131.
ComputeOrigin ==
    /\ pc = "loop"
    /\ idx > Len(gml_files)
    /\ IF EmptyInput(all_triangles)
       THEN /\ error' = "SystemExit"
            /\ pc' = "done"
            /\ UNCHANGED <<lat0, lon0>>
       ELSE /\ lat0' = Mean(lats)
            /\ lon0' = Mean(lons)
            /\ pc' = "convert_init"
            /\ UNCHANGED error
    /\ UNCHANGED <<dir_files, limit, gml_files, idx, all_triangles, lats, lons,
                   scales, ti, vi, flat, converted, bmin, bmax, output,
                   ring_vars, extract_vars>>

\* Lines 76-79.
ConvertInit ==
    /\ pc = "convert_init"
    /\ IF DegreesRaises(lat0)
       THEN /\ error' = "ValueError"
            /\ pc' = "done"
            /\ UNCHANGED scales
       ELSE /\ scales' = degrees_to_meters_converter(lat0)
            /\ pc' = "convert"
            /\ UNCHANGED error
    /\ converted' = <<>>
    /\ bmin' = <<PosInf, PosInf, PosInf>>
    /\ bmax' = <<NegInf, NegInf, NegInf>>
    /\ ti' = 1
    /\ vi' = 1
    /\ flat' = <<>>
    /\ UNCHANGED <<dir_files, limit, gml_files, idx, all_triangles, lats, lons,
                   lat0, lon0, output, ring_vars, extract_vars>>

\* One iteration of the inner loop of lines 83-93, with line 94 after the
\* third vertex of a triangle.
ConvertVertex ==
    /\ pc = "convert"
    /\ ti <= Len(all_triangles)
    /\ LET p == ProjectVertex(all_triangles[ti][vi], lat0, lon0, scales)
       IN /\ bmin' = AccMin(bmin, p)
          /\ bmax' = AccMax(bmax, p)
          /\ IF vi = 3
             THEN /\ converted' = Append(converted, flat \o p)
                  /\ flat' = <<>>
                  /\ ti' = ti + 1
                  /\ vi' = 1
             ELSE /\ flat' = flat \o p
                  /\ vi' = vi + 1
                  /\ UNCHANGED <<converted, ti>>
    /\ UNCHANGED <<dir_files, limit, gml_files, idx, all_triangles, lats, lons,
                   lat0, lon0, scales, output, error, pc, ring_vars, extract_vars>>

\* Lines 96-100 and 135-151: the record json.dump writes to dest.
WriteOutput ==
    /\ pc = "convert"
    /\ ti > Len(all_triangles)
    /\ output' = << [origin |-> [lat |-> lat0, lon |-> lon0],
                     triangles |-> converted,
                     bounds |-> [min |-> bmin, max |-> bmax],
                     metadata |-> [source_files |-> SourceFiles(gml_files),
                                   lat_scale_m_per_deg |-> degrees_to_meters_converter(lat0)[1],
                                   lon_scale_m_per_deg |-> degrees_to_meters_converter(lat0)[2]]] >>
    /\ pc' = "done"
    /\ UNCHANGED <<dir_files, limit, gml_files, idx, all_triangles, lats, lons,
                   lat0, lon0, scales, ti, vi, flat, converted, bmin, bmax, error,
                   ring_vars, extract_vars>>

Next ==
    \/ Enumerate
    \/ ExtractFile
    \/ ComputeOrigin
    \/ ConvertInit
    \/ ConvertVertex
    \/ WriteOutput

Spec == Init /\ [][Next]_vars

(***************************************************************************)
(* Claims about one ring (SpecRing).                                       *)
(***************************************************************************)
\* The triples of the ring's text as chunked() groups them, before the
\* closing vertex is looked at.
RawChunks(ring) == chunked([i \in 1..Len(ring.text) |-> FloatOf(ring.text[i])], 3)

\* C1: a ring of fewer than 3 vertices gives no triangle; a ring of N >= 3
\* vertices gives exactly N-2 triangles, the i-th being
\* (ring[0], ring[i], ring[i+1]).
C1_FanTriangulation ==
    r_pc = "done" =>
        LET c == r_parsed.coords
            N == Len(c)
        IN /\ N < 3 => r_tris = <<>>
           /\ N >= 3 =>
                /\ Len(r_tris) = N - 2
                /\ \A i \in 1..(N - 2) : r_tris[i] = <<c[1], c[i + 1], c[i + 2]>>

C1_Witness ==
    /\ r_pc = "done"
    /\ Len(r_parsed.coords) = 4
    /\ Len(r_tris) = 2
    /\ r_tris[2][2] # r_tris[1][1]

\* The ring's text is a closed coordinate list: it was parsed without error
\* and its first and last triples are equal.
ClosedInput ==
    /\ r_pc = "done"
    /\ r_ring.has_pos
    /\ Len(RawChunks(r_ring)) >= 1
    /\ TupleEq(RawChunks(r_ring)[1], RawChunks(r_ring)[Len(RawChunks(r_ring))])

\* The ring's text with its last triple removed.
ShortenedText == SubSeq(r_ring.text, 1, 3 * (Len(RawChunks(r_ring)) - 1))

\* C2 as stated: on a closed coordinate list R, parsing and triangulating R
\* gives what parsing and triangulating R without its last triple gives.
C2_ReparseShortened ==
    ClosedInput =>
        r_tris = polygon_to_triangles(parse_linear_ring(Ring(ShortenedText)).coords)

\* C2 amended: on a closed coordinate list R, parsing and triangulating R
\* gives the fan of R's triples with the last one removed, the closing rule
\* being applied once and not again to the shortened list.
C2_ClosingVertexDroppedOnce ==
    ClosedInput =>
        LET chunks == RawChunks(r_ring)
            shortened == SubSeq(chunks, 1, Len(chunks) - 1)
            N == Len(shortened)
        IN /\ N < 3 => r_tris = <<>>
           /\ N >= 3 =>
                /\ Len(r_tris) = N - 2
                /\ \A i \in 1..(N - 2) :
                     r_tris[i] = <<shortened[1], shortened[i + 1], shortened[i + 2]>>

C2_Witness ==
    /\ ClosedInput
    /\ Len(RawChunks(r_ring)) = 4
    /\ Len(r_tris) = 1

\* C10: every element of a ring parsed from valid float tokens is a complete
\* (lat, lon, height) triple, and so is every vertex of every triangle made
\* from it.
C10_CompleteTriples ==
    /\ r_pc \in {"triangulate", "done"} =>
         \A i \in 1..Len(r_parsed.coords) : Len(r_parsed.coords[i]) = 3
    /\ r_pc = "done" =>
         \A i \in 1..Len(r_tris) : \A j \in 1..3 : Len(r_tris[i][j]) = 3

(***************************************************************************)
(* Claims about one document (SpecExtract).                                *)
(***************************************************************************)
\* The triangles of a sequence of rings, ring by ring.
TrianglesOfRings(rings) ==
    Flatten([i \in 1..Len(rings) |-> polygon_to_triangles(parse_linear_ring(rings[i]).coords)])

SolidTriangles(doc) == TrianglesOfRings(SolidRings(doc))

\* What a document yields: the triangles of the rings inside its solids, or,
\* when there are none, the triangles of every ring of the document.
FileTriangles(doc) ==
    IF SolidTriangles(doc) # <<>> THEN SolidTriangles(doc) ELSE TrianglesOfRings(AllRings(doc))

\* C8: extract_triangles returns the triangles of the rings inside lod1Solid
\* nodes when there is at least one, and otherwise the triangles of every
\* LinearRing of the document.
C8_SolidsThenFallback ==
    (e_pc = "done" /\ ~e_result.raised) =>
        /\ SolidTriangles(e_doc) # <<>> => e_result.triangles = SolidTriangles(e_doc)
        /\ SolidTriangles(e_doc) = <<>> => e_result.triangles = TrianglesOfRings(AllRings(e_doc))

C8_Witness ==
    /\ e_pc = "done"
    /\ \E i \in 1..Len(e_doc) : e_doc[i].solid /\ e_doc[i].rings = <<>>
    /\ SolidRings(e_doc) = <<>>
    /\ e_result.triangles # <<>>

(***************************************************************************)
(* Claims about a whole run (Spec).                                        *)
(***************************************************************************)
Written == output # <<>>

\* The files main() would process, from the directory listing and --limit.
ProcessedCount ==
    IF limit = 0 \/ limit > Len(dir_files) THEN Len(dir_files) ELSE limit

ContributingRings(doc) ==
    IF SolidTriangles(doc) # <<>> THEN SolidRings(doc) ELSE AllRings(doc)

\* Every vertex parse_linear_ring returns for those rings, over the files
\* that yielded a triangle, each vertex once.
ExtractedVertices(files) ==
    Flatten([i \in 1..Len(files) |->
        IF FileTriangles(files[i].doc) = <<>> THEN <<>>
        ELSE Flatten([j \in 1..Len(ContributingRings(files[i].doc)) |->
                 parse_linear_ring(ContributingRings(files[i].doc)[j]).coords])])

Component(vertices, k) == [i \in 1..Len(vertices) |-> vertices[i][k]]

\* C4 as stated: the origin is the mean latitude and longitude of the
\* extracted ring vertices, each vertex counted once.
C4_OriginIsMeanOfRingVertices ==
    Written =>
        /\ output[1].origin.lat = Mean(Component(ExtractedVertices(gml_files), 1))
        /\ output[1].origin.lon = Mean(Component(ExtractedVertices(gml_files), 2))

\* Component k of a ring's vertices, weighted by the number of fan
\* triangles each vertex is a corner of: N-2 for the anchor, 1 for the
\* second and the last vertex, 2 for the others; nothing for a ring of fewer
\* than 3 vertices.
FanWeight(N, i) == IF i = 1 THEN N - 2 ELSE IF i = 2 \/ i = N THEN 1 ELSE 2

RingWeightedSum(c, k) ==
    IF Len(c) < 3 THEN Num(0)
    ELSE FSum([i \in 1..Len(c) |-> FMul(Num(FanWeight(Len(c), i)), c[i][k])])

RingWeight(c) == IF Len(c) < 3 THEN 0 ELSE 3 * (Len(c) - 2)

RECURSIVE IntSum(_)
IntSum(xs) == IF xs = <<>> THEN 0 ELSE Head(xs) + IntSum(Tail(xs))

ContributingCoords(files) ==
    Flatten([i \in 1..Len(files) |->
        [j \in 1..Len(ContributingRings(files[i].doc)) |->
            parse_linear_ring(ContributingRings(files[i].doc)[j]).coords]])

WeightedMean(files, k) ==
    LET cs == ContributingCoords(files)
    IN FDivInt(FSum([i \in 1..Len(cs) |-> RingWeightedSum(cs[i], k)]),
               IntSum([i \in 1..Len(cs) |-> RingWeight(cs[i])]))

\* C4 amended: the origin is the mean latitude and longitude over the
\* corners of the collected triangles, so a ring vertex counts once for every
\* fan triangle it is a corner of and a ring of fewer than 3 vertices does
\* not count.
C4_OriginIsMeanOfTriangleCorners ==
    Written =>
        /\ output[1].origin.lat = WeightedMean(gml_files, 1)
        /\ output[1].origin.lon = WeightedMean(gml_files, 2)

C4_Witness ==
    /\ Written
    /\ ~IsNaN(output[1].origin.lat)
    /\ output[1].origin.lat # Mean(Component(ExtractedVertices(gml_files), 1))

\* The rings of a document that parse_linear_ring is called on: those of the
\* solids and, when they give no triangle, every ring of the document, up to
\* the first ring holding a token float() rejects.
RingHasToken(ring, kinds) ==
    ring.has_pos /\ \E i \in 1..Len(ring.text) : ring.text[i].k \in kinds

PassRings(doc) ==
    IF (\E i \in 1..Len(SolidRings(doc)) : RingHasToken(SolidRings(doc)[i], {"bad"}))
       \/ SolidTriangles(doc) # <<>>
    THEN SolidRings(doc)
    ELSE SolidRings(doc) \o AllRings(doc)

VisitedRings(doc) ==
    LET rs == PassRings(doc)
        stop == {i \in 1..Len(rs) : RingHasToken(rs[i], {"bad"})}
    IN IF stop = {} THEN rs
       ELSE SubSeq(rs, 1, CHOOSE i \in stop : \A j \in stop : i <= j)

VisitsToken(doc, kinds) ==
    \E i \in 1..Len(VisitedRings(doc)) : RingHasToken(VisitedRings(doc)[i], kinds)

\* File i has been handed to extract_triangles.
Attempted(i) == i < idx \/ (i = idx /\ pc = "done")

\* A parse error was raised: a file handed to extract_triangles had a ring
\* parsed that holds a token float() rejects.
ParseErrorRaised ==
    \E i \in 1..Len(gml_files) :
        Attempted(i) /\ VisitsToken(gml_files[i].doc, {"bad"})

C6_InvalidOrNaNTokenAborts ==
    \A i \in 1..Len(gml_files) :
        (Attempted(i) /\ VisitsToken(gml_files[i].doc, {"bad", "nan"}))
            => (error = "ValueError" /\ ~Written)

\* C6 amended: a parsed ring holding a token float() rejects (a non-numeric
\* string) aborts the run with ValueError and the output is not written; the
\* token NaN is a float literal and does not abort the run.
C6_RejectedTokenAborts ==
    \A i \in 1..Len(gml_files) :
        (Attempted(i) /\ VisitsToken(gml_files[i].doc, {"bad"}))
            => (error = "ValueError" /\ ~Written)

C6_Witness ==
    /\ pc = "done"
    /\ error = "ValueError"
    /\ ~Written
    /\ idx = 2
    /\ Len(gml_files) = 2
    /\ all_triangles # <<>>
    /\ VisitsToken(gml_files[2].doc, {"bad"})

\* The projected coordinates accumulated so far by convert_coordinates, three
\* per vertex, in loop order.
Accumulated == Flatten(converted) \o flat

\* Axis k (1 = x, 2 = y, 3 = z) of the projected vertices in a flat list.
AxisValues(coordinates, k) ==
    [m \in 1..(Len(coordinates) \div 3) |-> coordinates[3 * (m - 1) + k]]

\* lo and hi bound the values and are each attained by one of them.
Encloses(lo, hi, values) ==
    /\ FLeq(lo, hi)
    /\ \A m \in 1..Len(values) : FLeq(lo, values[m]) /\ FLeq(values[m], hi)
    /\ \E m \in 1..Len(values) : FEq(lo, values[m])
    /\ \E m \in 1..Len(values) : FEq(hi, values[m])

HasNaN(values) == \E m \in 1..Len(values) : IsNaN(values[m])

\* C7 as stated: before any vertex is seen min is +inf and max is -inf;
\* after each accumulated vertex min[k] <= max[k], every projected
\* coordinate lies between them and each is attained, for any triangles.
C7_BoundsEncloseEveryVertex ==
    /\ pc = "convert" =>
         \A k \in 1..3 :
            IF Accumulated = <<>>
            THEN bmin[k] = PosInf /\ bmax[k] = NegInf
            ELSE Encloses(bmin[k], bmax[k], AxisValues(Accumulated, k))
    /\ Written =>
         \A k \in 1..3 :
            Encloses(output[1].bounds.min[k], output[1].bounds.max[k],
                     AxisValues(Flatten(output[1].triangles), k))

\* C7 amended: the same, on every axis none of whose projected coordinates
\* is NaN (a NaN coordinate is never taken by min or max, and lies between
\* no two bounds).
C7_BoundsEncloseNumbers ==
    /\ pc = "convert" =>
         \A k \in 1..3 :
            IF Accumulated = <<>>
            THEN bmin[k] = PosInf /\ bmax[k] = NegInf
            ELSE ~HasNaN(AxisValues(Accumulated, k))
                    => Encloses(bmin[k], bmax[k], AxisValues(Accumulated, k))
    /\ Written =>
         \A k \in 1..3 :
            ~HasNaN(AxisValues(Flatten(output[1].triangles), k))
                => Encloses(output[1].bounds.min[k], output[1].bounds.max[k],
                            AxisValues(Flatten(output[1].triangles), k))

C7_Witness ==
    /\ Written
    /\ Len(output[1].triangles) >= 2
    /\ \A k \in 1..3 :
         /\ ~HasNaN(AxisValues(Flatten(output[1].triangles), k))
         /\ FLt(output[1].bounds.min[k], output[1].bounds.max[k])

\* The raw triangles of the processed files, file by file.
ExpectedRaw(files) == Flatten([i \in 1..Len(files) |-> FileTriangles(files[i].doc)])

\* C9: the written triangles are, in order, the projections of the triangles
\* of the processed files taken file by file in processing order and in
\* extraction order within a file, so the output is determined by the input;
\* no vertex is projected before every file is extracted and the origin
\* computed.
C9_OutputOrderAndPhases ==
    /\ (pc \in {"convert_init", "convert"} \/ Accumulated # <<>>) =>
         /\ idx = ProcessedCount + 1
         /\ all_triangles = ExpectedRaw(gml_files)
         /\ lat0 = Mean(lats)
         /\ lon0 = Mean(lons)
    /\ Written =>
         LET raw == ExpectedRaw(SubSeq(dir_files, 1, ProcessedCount))
             doc == output[1]
             sc == <<doc.metadata.lat_scale_m_per_deg, doc.metadata.lon_scale_m_per_deg>>
         IN /\ Len(doc.triangles) = Len(raw)
            /\ \A t \in 1..Len(raw) :
                 doc.triangles[t] =
                    Flatten([j \in 1..3 |->
                        ProjectVertex(raw[t][j], doc.origin.lat, doc.origin.lon, sc)])

C9_Witness ==
    /\ Written
    /\ Len(gml_files) = 2
    /\ FileTriangles(gml_files[1].doc) # <<>>
    /\ Len(FileTriangles(gml_files[2].doc)) = 2
    /\ output[1].triangles[1] # output[1].triangles[2]
    /\ Len(output[1].triangles) = Len(FileTriangles(gml_files[1].doc)) + 2

====
